---- MODULE Spec2Model ----
(***************************************************************************)
(* The A417 flood monitor: the inference core of the site                  *)
(* (site/src/logic.ts: flood-status classifier, road-assessment            *)
(* reconciler), the page that runs it (site/src/App.tsx), the route-check  *)
(* worker and the traffic worker.                                          *)
(*                                                                         *)
(* Conventions                                                             *)
(*  - River levels are metres in the source; here they are millimetres,    *)
(*    so 3.98 m is 3980.  The two derived thresholds ROAD_FLOOD - 0.05     *)
(*    and FLOOD_WARNING - 0.05 evaluate in IEEE-754 doubles to exactly     *)
(*    the doubles of 3.93 and 3.85, so the integer comparison agrees with  *)
(*    the floating-point one on every level written with three decimals.   *)
(*  - Time is milliseconds since the epoch, as Date.now() and              *)
(*    Date.getTime() give it.                                              *)
(*  - JavaScript null is <<>> for object- and number-typed values (a       *)
(*    number n is then <<n>>), and the string "null" for the string-typed  *)
(*    routeStatus and the tri-state isOpen ("true", "false", "null").      *)
(*  - A property that is absent from an object is absent from the record:  *)
(*    reading it gives JavaScript's undefined, modelled by JsGreater and   *)
(*    JsStrictEquals below.                                                *)
(*  - Reason strings are the source's literals; the one em dash (logic.ts  *)
(*    line 117) is written as a hyphen.                                    *)
(***************************************************************************)
EXTENDS Integers, Sequences, FiniteSets

VARIABLES now, fn, args, ret, prevStatus, page, runs, chartFetches

vars == <<now, fn, args, ret, prevStatus, page, runs, chartFetches>>

(* the state of the page: what is rendered, the loadData runs in flight and
   the chart refetches in flight *)
app == <<page, runs, chartFetches>>

(* the clock and the call in progress *)
core == <<now, fn, args, ret, prevStatus>>

-----------------------------------------------------------------------------
(* Bounds of the model *)

MaxDay == 8
MaxReadings == 2
MaxPolls == 2
MaxTrendLen == 9
MaxLegs == 2
MaxPoints == 2
MaxMatchLegs == 2
MaxRows == 3
MaxTicks == 6
MaxRuns == 2

-----------------------------------------------------------------------------
(* types.ts *)

ROAD_FLOOD == 3980
FLOOD_WARNING == 3900
NORMAL_HIGH == 3000

FloodStatus == {"FLOODED", "NEAR_FLOOD", "RECEDING", "CLEAR", "UNKNOWN"}

RouteStatus == {"ROUTING_THROUGH", "ROUTING_AROUND", "NO_ROUTE", "ERROR"}

null == <<>>

DAY_MS == 24 * 60 * 60 * 1000

Day(k) == k * DAY_MS

(* EAReading: {dateTime, value}; dateTime is kept as its getTime() value. *)
EAReading == [dateTime : {Day(k) : k \in 0..MaxDay},
              value : {ROAD_FLOOD - 1, ROAD_FLOOD}]

(* The window object of a TrafficResponse as the traffic worker builds it:
   an empty window carries no readingsWithLiveData property. *)
TrafficWindow ==
  {[readings |-> 0]} \cup
  {[readings |-> n, readingsWithLiveData |-> k] : n \in 1..MaxPolls, k \in 0..MaxPolls}

(* the values of TrafficResponse.status *)
TrafficResponseStatus == {"LIVE_DATA", "NO_LIVE_DATA", "ERROR"}

(* TrafficResponse, reduced to the one member the reconciler reads. *)
TrafficResponse == {[window |-> w] : w \in {x \in TrafficWindow :
                       "readingsWithLiveData" \in DOMAIN x => x.readingsWithLiveData <= x.readings}}

-----------------------------------------------------------------------------
(* JavaScript operators on a possibly absent numeric property *)

(* obj.prop > n : undefined > n is false *)
JsGreater(obj, prop, n) == prop \in DOMAIN obj /\ obj[prop] > n

(* obj.prop === n : undefined === n is false *)
JsStrictEquals(obj, prop, n) == prop \in DOMAIN obj /\ obj[prop] = n

-----------------------------------------------------------------------------
(* IEEE-754 doubles.  A level of mm millimetres reaches the code as the
   double nearest to mm/1000.  For 2 m <= level < 4 m doubles are the
   multiples of 2^-51, so that double is (mm * 2^48 - RoundOff(mm)) /
   (125 * 2^51), where RoundOff(mm) is the residue of mm * 2^48 modulo 125
   of least magnitude (2^48 = 31 modulo 125).  The difference of two such
   doubles is computed without rounding. *)

RoundOff(mm) ==
  LET r == (mm * 31) % 125
  IN IF r <= 62 THEN r ELSE r - 125

(* Math.abs(last - first) < 0.02 on doubles.  The double 0.02 is
   0.02 + 3 / (25 * 2^58).  Scaled by 125 * 2^51 the comparison reads
   d * 2^48 - (RoundOff(hi) - RoundOff(lo)) < 20 * 2^48 + 15 / 128 with d the
   difference in millimetres: decided by d unless d = 20, and then by the
   round-offs. *)
AbsDiffBelowDeadband(first, last) ==
  LET lo == IF first <= last THEN first ELSE last
      hi == IF first <= last THEN last ELSE first
      d == hi - lo
  IN IF d # 20 THEN d < 20
     ELSE 128 * (RoundOff(lo) - RoundOff(hi)) < 15

(* readings.slice(-n) *)
SliceLast(readings, n) ==
  IF Len(readings) <= n THEN readings
  ELSE SubSeq(readings, Len(readings) - n + 1, Len(readings))

-----------------------------------------------------------------------------
(* logic.ts: determineTrend *)

determineTrend(readings) ==
  IF Len(readings) < 4 THEN "UNKNOWN"
  ELSE LET recent == SliceLast(readings, 8)
       IN IF Len(recent) < 2 THEN "UNKNOWN"
          ELSE LET first == recent[1].value
                   last == recent[Len(recent)].value
               IN IF AbsDiffBelowDeadband(first, last) THEN "STEADY"
                  ELSE IF last > first THEN "RISING" ELSE "FALLING"

-----------------------------------------------------------------------------
(* logic.ts: findTimeWaterDroppedBelowFlood.  Indices are 1-based here. *)

(* the loop body from index i downwards *)
RECURSIVE scanBackFrom(_, _)
scanBackFrom(readings, i) ==
  IF i < 1 THEN null
  ELSE IF readings[i].value >= ROAD_FLOOD
  THEN IF i + 1 <= Len(readings)
       THEN <<readings[i + 1].dateTime>>
       ELSE <<readings[i].dateTime>>
  ELSE scanBackFrom(readings, i - 1)

(* findTimeWaterDroppedBelowFlood returning the flood reading's own
   timestamp in every case *)
findTimeWaterDroppedBelowFlood_OwnTimestamp(readings) ==
  LET flooded == {i \in 1..Len(readings) : readings[i].value >= ROAD_FLOOD}
  IN IF flooded = {} THEN null
     ELSE <<readings[CHOOSE i \in flooded : \A j \in flooded : j <= i].dateTime>>

findTimeWaterDroppedBelowFlood(readings) ==
  scanBackFrom(readings, Len(readings))

-----------------------------------------------------------------------------
(* logic.ts: determineFloodStatus *)

(* determineFloodStatus with the flood band's lower bound excluded (> for >=) *)
determineFloodStatus_StrictFloodBand(currentLevel, readings) ==
  IF currentLevel = null THEN "UNKNOWN"
  ELSE IF currentLevel[1] > ROAD_FLOOD - 50 THEN "FLOODED"
  ELSE IF currentLevel[1] >= FLOOD_WARNING - 50 THEN "NEAR_FLOOD"
  ELSE LET sevenDaysAgo == now - 7 * 24 * 60 * 60 * 1000
           recentFlood == \E i \in 1..Len(readings) :
                             /\ readings[i].value >= ROAD_FLOOD
                             /\ readings[i].dateTime > sevenDaysAgo
       IN IF recentFlood /\ currentLevel[1] > NORMAL_HIGH THEN "RECEDING"
          ELSE "CLEAR"

(* determineFloodStatus with the NORMAL_HIGH floor included (>= for >) *)
determineFloodStatus_FloorIncluded(currentLevel, readings) ==
  IF currentLevel = null THEN "UNKNOWN"
  ELSE IF currentLevel[1] >= ROAD_FLOOD - 50 THEN "FLOODED"
  ELSE IF currentLevel[1] >= FLOOD_WARNING - 50 THEN "NEAR_FLOOD"
  ELSE LET sevenDaysAgo == now - 7 * 24 * 60 * 60 * 1000
           recentFlood == \E i \in 1..Len(readings) :
                             /\ readings[i].value >= ROAD_FLOOD
                             /\ readings[i].dateTime > sevenDaysAgo
       IN IF recentFlood /\ currentLevel[1] >= NORMAL_HIGH THEN "RECEDING"
          ELSE "CLEAR"

(* determineFloodStatus without decay: any flood in the series is RECEDING *)
determineFloodStatus_NoDecay(currentLevel, readings) ==
  IF currentLevel = null THEN "UNKNOWN"
  ELSE IF currentLevel[1] >= ROAD_FLOOD - 50 THEN "FLOODED"
  ELSE IF currentLevel[1] >= FLOOD_WARNING - 50 THEN "NEAR_FLOOD"
  ELSE IF \E i \in 1..Len(readings) : readings[i].value >= ROAD_FLOOD
  THEN "RECEDING"
  ELSE "CLEAR"

determineFloodStatus(currentLevel, readings) ==
  IF currentLevel = null THEN "UNKNOWN"
  ELSE IF currentLevel[1] >= ROAD_FLOOD - 50 THEN "FLOODED"
  ELSE IF currentLevel[1] >= FLOOD_WARNING - 50 THEN "NEAR_FLOOD"
  ELSE LET sevenDaysAgo == now - 7 * 24 * 60 * 60 * 1000
           recentFlood == \E i \in 1..Len(readings) :
                             /\ readings[i].value >= ROAD_FLOOD
                             /\ readings[i].dateTime > sevenDaysAgo
       IN IF recentFlood /\ currentLevel[1] > NORMAL_HIGH THEN "RECEDING"
          ELSE "CLEAR"

-----------------------------------------------------------------------------
(* logic.ts: assessRoadStatus, one operator per floodStatus branch *)

assessFlooded ==
  [isOpen |-> "false", confidence |-> "HIGH",
   reason |-> "Water levels are above the road flooding threshold."]

(* assessNearFlood with NO_ROUTE left out of the closed condition *)
assessNearFlood_NoRouteOpen(routeStatus) ==
  IF routeStatus = "ROUTING_AROUND"
  THEN [isOpen |-> "false", confidence |-> "MEDIUM",
        reason |-> "Water levels are near the road flooding threshold and the route planner is directing traffic around this road. The road may be impassable. Note that the route planner can sometimes be wrong."]
  ELSE [isOpen |-> "true", confidence |-> "MEDIUM",
        reason |-> "Water levels are near the road flooding threshold but the road is likely still passable. Conditions may deteriorate - drive with caution."]

assessNearFlood(routeStatus) ==
  IF routeStatus = "ROUTING_AROUND" \/ routeStatus = "NO_ROUTE"
  THEN [isOpen |-> "false", confidence |-> "MEDIUM",
        reason |-> "Water levels are near the road flooding threshold and the route planner is directing traffic around this road. The road may be impassable. Note that the route planner can sometimes be wrong."]
  ELSE [isOpen |-> "true", confidence |-> "MEDIUM",
        reason |-> "Water levels are near the road flooding threshold but the road is likely still passable. Conditions may deteriorate - drive with caution."]

(* The five verdicts of the RECEDING branch *)
RecedingOpenSeen ==
  [isOpen |-> "true", confidence |-> "HIGH",
   reason |-> "Cars have been detected on the road since water levels dropped. The road appears to be open."]

RecedingThroughQuiet ==
  [isOpen |-> "true", confidence |-> "MEDIUM",
   reason |-> "The route planner is directing traffic through this road, but no cars have been detected yet. The traffic sensor can be unreliable, so the road is probably open."]

RecedingThrough ==
  [isOpen |-> "true", confidence |-> "MEDIUM",
   reason |-> "The route planner is directing traffic through this road. However, the route planner occasionally shows the road as open prematurely."]

RecedingAround ==
  [isOpen |-> "false", confidence |-> "MEDIUM",
   reason |-> "Water levels have dropped, but the route planner is still directing traffic around this road. The road may still be closed or obstructed. Note that the route planner sometimes shows the road as closed when it has reopened."]

RecedingUncertain ==
  [isOpen |-> "null", confidence |-> "LOW",
   reason |-> "Water levels have dropped below the flood threshold recently. We can't confirm whether the road has reopened yet."]

(* assessReceding with the route planner consulted before the traffic seen
   since the flood *)
assessReceding_RouteFirst(routeStatus, trafficSinceFlood) ==
  IF routeStatus = "ROUTING_AROUND" \/ routeStatus = "NO_ROUTE"
  THEN RecedingAround
  ELSE IF trafficSinceFlood # null
          /\ JsGreater(trafficSinceFlood.window, "readingsWithLiveData", 0)
  THEN RecedingOpenSeen
  ELSE IF routeStatus = "ROUTING_THROUGH"
  THEN IF trafficSinceFlood # null
          /\ JsStrictEquals(trafficSinceFlood.window, "readingsWithLiveData", 0)
       THEN RecedingThroughQuiet
       ELSE RecedingThrough
  ELSE RecedingUncertain

(* assessReceding with NO_ROUTE left out of the closed condition *)
assessReceding_NoRouteUncertain(routeStatus, trafficSinceFlood) ==
  IF trafficSinceFlood # null
     /\ JsGreater(trafficSinceFlood.window, "readingsWithLiveData", 0)
  THEN RecedingOpenSeen
  ELSE IF routeStatus = "ROUTING_THROUGH"
  THEN IF trafficSinceFlood # null
          /\ JsStrictEquals(trafficSinceFlood.window, "readingsWithLiveData", 0)
       THEN RecedingThroughQuiet
       ELSE RecedingThrough
  ELSE IF routeStatus = "ROUTING_AROUND"
  THEN RecedingAround
  ELSE RecedingUncertain

(* assessReceding reading a silent sensor as a closed road *)
assessReceding_SilenceCloses(routeStatus, trafficSinceFlood) ==
  IF trafficSinceFlood # null
     /\ JsGreater(trafficSinceFlood.window, "readingsWithLiveData", 0)
  THEN RecedingOpenSeen
  ELSE IF trafficSinceFlood # null
          /\ JsStrictEquals(trafficSinceFlood.window, "readingsWithLiveData", 0)
  THEN RecedingAround
  ELSE IF routeStatus = "ROUTING_THROUGH"
  THEN RecedingThrough
  ELSE IF routeStatus = "ROUTING_AROUND" \/ routeStatus = "NO_ROUTE"
  THEN RecedingAround
  ELSE RecedingUncertain

(* assessReceding without the null guards: reading .window of null throws *)
assessReceding_Unguarded(routeStatus, trafficSinceFlood) ==
  IF trafficSinceFlood = null
  THEN [thrown |-> "TypeError"]
  ELSE IF JsGreater(trafficSinceFlood.window, "readingsWithLiveData", 0)
  THEN RecedingOpenSeen
  ELSE IF routeStatus = "ROUTING_THROUGH"
  THEN IF JsStrictEquals(trafficSinceFlood.window, "readingsWithLiveData", 0)
       THEN RecedingThroughQuiet
       ELSE RecedingThrough
  ELSE IF routeStatus = "ROUTING_AROUND" \/ routeStatus = "NO_ROUTE"
  THEN RecedingAround
  ELSE RecedingUncertain

assessReceding(routeStatus, trafficSinceFlood) ==
  IF trafficSinceFlood # null
     /\ JsGreater(trafficSinceFlood.window, "readingsWithLiveData", 0)
  THEN RecedingOpenSeen
  ELSE IF routeStatus = "ROUTING_THROUGH"
  THEN IF trafficSinceFlood # null
          /\ JsStrictEquals(trafficSinceFlood.window, "readingsWithLiveData", 0)
       THEN RecedingThroughQuiet
       ELSE RecedingThrough
  ELSE IF routeStatus = "ROUTING_AROUND" \/ routeStatus = "NO_ROUTE"
  THEN RecedingAround
  ELSE RecedingUncertain

(* assessClear treating NO_ROUTE as the NEAR_FLOOD branch does *)
assessClear_NoRouteClosed(routeStatus) ==
  IF routeStatus = "ROUTING_THROUGH"
  THEN [isOpen |-> "true", confidence |-> "HIGH",
        reason |-> "Water levels are normal and traffic is routing through."]
  ELSE IF routeStatus = "ROUTING_AROUND" \/ routeStatus = "NO_ROUTE"
  THEN [isOpen |-> "false", confidence |-> "MEDIUM",
        reason |-> "Water levels are normal, but the route planner is directing traffic around this road. There may be a closure for other reasons. The route planner can sometimes be wrong."]
  ELSE [isOpen |-> "true", confidence |-> "LOW",
        reason |-> "Water levels are within normal range."]

(* The trailing branches, commented "CLEAR status" in the source; every
   floodStatus that is none of FLOODED, NEAR_FLOOD, RECEDING arrives here. *)
assessClear(routeStatus) ==
  IF routeStatus = "ROUTING_THROUGH"
  THEN [isOpen |-> "true", confidence |-> "HIGH",
        reason |-> "Water levels are normal and traffic is routing through."]
  ELSE IF routeStatus = "ROUTING_AROUND"
  THEN [isOpen |-> "false", confidence |-> "MEDIUM",
        reason |-> "Water levels are normal, but the route planner is directing traffic around this road. There may be a closure for other reasons. The route planner can sometimes be wrong."]
  ELSE [isOpen |-> "true", confidence |-> "LOW",
        reason |-> "Water levels are within normal range."]

(* assessRoadStatus letting live vehicles in the current window open the
   road when the river is not in flood *)
assessRoadStatus_CurrentTrafficOpens(floodStatus, routeStatus, _trafficData, trafficSinceFlood) ==
  IF floodStatus = "FLOODED" THEN assessFlooded
  ELSE IF _trafficData # null /\ JsGreater(_trafficData.window, "readingsWithLiveData", 0)
  THEN RecedingOpenSeen
  ELSE IF floodStatus = "NEAR_FLOOD" THEN assessNearFlood(routeStatus)
  ELSE IF floodStatus = "RECEDING" THEN assessReceding(routeStatus, trafficSinceFlood)
  ELSE assessClear(routeStatus)

(* assessRoadStatus with the traffic seen since the flood consulted before
   the flood level *)
assessRoadStatus_TrafficFirst(floodStatus, routeStatus, _trafficData, trafficSinceFlood) ==
  IF floodStatus = "RECEDING" \/ floodStatus = "FLOODED"
  THEN IF floodStatus = "FLOODED"
          /\ ~(trafficSinceFlood # null
               /\ JsGreater(trafficSinceFlood.window, "readingsWithLiveData", 0))
       THEN assessFlooded
       ELSE assessReceding(routeStatus, trafficSinceFlood)
  ELSE IF floodStatus = "NEAR_FLOOD" THEN assessNearFlood(routeStatus)
  ELSE assessClear(routeStatus)

assessRoadStatus(floodStatus, routeStatus, _trafficData, trafficSinceFlood) ==
  IF floodStatus = "FLOODED" THEN assessFlooded
  ELSE IF floodStatus = "NEAR_FLOOD" THEN assessNearFlood(routeStatus)
  ELSE IF floodStatus = "RECEDING" THEN assessReceding(routeStatus, trafficSinceFlood)
  ELSE assessClear(routeStatus)

-----------------------------------------------------------------------------
(* Route-check worker: checkRoute.  Lengths and distances are metres.  A
   route point is kept as its haversineM distance to A417_MIDPOINT. *)

DIRECT_DISTANCE_M == 1800
DETOUR_THRESHOLD_MULTIPLIER_TIMES_10 == 25
MIDPOINT_PROXIMITY_M == 150

(* JavaScript Infinity: larger than every distance *)
Infinity == 2147483647

haversineM(point) == point.distanceToMidpointM

(* the for loop of findClosestDistance from point i on *)
RECURSIVE closestFrom(_, _, _)
closestFrom(routePoints, i, minDist) ==
  IF i > Len(routePoints) THEN minDist
  ELSE LET dist == haversineM(routePoints[i])
       IN closestFrom(routePoints, i + 1, IF dist < minDist THEN dist ELSE minDist)

findClosestDistance(routePoints) == closestFrom(routePoints, 1, Infinity)

(* route.legs.flatMap((leg) => leg.points) *)
RECURSIVE flatMapPoints(_)
flatMapPoints(legs) ==
  IF Len(legs) = 0 THEN <<>>
  ELSE Head(legs).points \o flatMapPoints(Tail(legs))

(* checkRoute taking either check as enough (|| for &&) *)
checkRoute_EitherCheck(apiKey, res) ==
  IF apiKey = "" THEN [thrown |-> "Error"]
  ELSE IF ~res.ok THEN [thrown |-> "Error"]
  ELSE IF "routes" \notin DOMAIN res.raw \/ Len(res.raw.routes) = 0
  THEN [status |-> "NO_ROUTE", route |-> null]
  ELSE LET route == res.raw.routes[1]
           routePoints == flatMapPoints(route.legs)
           isShortRoute == route.summary.lengthInMeters * 10
                             < DETOUR_THRESHOLD_MULTIPLIER_TIMES_10 * DIRECT_DISTANCE_M
           closestToMidpoint == findClosestDistance(routePoints)
           passesNearMidpoint == closestToMidpoint < MIDPOINT_PROXIMITY_M
           routingThrough == isShortRoute \/ passesNearMidpoint
       IN [status |-> IF routingThrough THEN "ROUTING_THROUGH" ELSE "ROUTING_AROUND",
           route |-> [distanceM |-> route.summary.lengthInMeters,
                      closestToMidpointM |-> closestToMidpoint]]

(* apiKey is env.TOMTOM_API_KEY ("" when not configured); res is the answer
   of the routing API: res.ok and the parsed body.  The returned route keeps
   the two fields the checks are made on.
   lengthInMeters / DIRECT_DISTANCE_M < 2.5 is compared as
   lengthInMeters * 10 < 25 * DIRECT_DISTANCE_M. *)
checkRoute(apiKey, res) ==
  IF apiKey = "" THEN [thrown |-> "Error"]
  ELSE IF ~res.ok THEN [thrown |-> "Error"]
  ELSE IF "routes" \notin DOMAIN res.raw \/ Len(res.raw.routes) = 0
  THEN [status |-> "NO_ROUTE", route |-> null]
  ELSE LET route == res.raw.routes[1]
           routePoints == flatMapPoints(route.legs)
           isShortRoute == route.summary.lengthInMeters * 10
                             < DETOUR_THRESHOLD_MULTIPLIER_TIMES_10 * DIRECT_DISTANCE_M
           closestToMidpoint == findClosestDistance(routePoints)
           passesNearMidpoint == closestToMidpoint < MIDPOINT_PROXIMITY_M
           routingThrough == isShortRoute /\ passesNearMidpoint
       IN [status |-> IF routingThrough THEN "ROUTING_THROUGH" ELSE "ROUTING_AROUND",
           route |-> [distanceM |-> route.summary.lengthInMeters,
                      closestToMidpointM |-> closestToMidpoint]]

-----------------------------------------------------------------------------
(* Traffic worker: fetchMapbox.  Segment speeds are whole metres per second;
   speeds in mph are kept in tenths (201 is 20.1 mph).  A mean that is not
   rounded is kept as a fraction in lowest terms. *)

RECURSIVE GCD(_, _)
GCD(a, b) == IF b = 0 THEN a ELSE GCD(b, a % b)

Ratio(n, d) == LET g == GCD(n, d) IN [num |-> n \div g, den |-> d \div g]

RECURSIVE Sum(_)
Sum(q) == IF Len(q) = 0 THEN 0 ELSE Head(q) + Sum(Tail(q))

(* Math.round(mps * 2.23694 * 10) / 10, in tenths of mph *)
mpsToMph(mps) == (mps * 223694 + 5000) \div 10000

(* the for loop over matching.legs pushing one annotation (speed or
   congestion) of every leg that has it *)
RECURSIVE pushAll(_, _)
pushAll(legs, annotation) ==
  IF Len(legs) = 0 THEN <<>>
  ELSE (IF annotation \in DOMAIN Head(legs) THEN Head(legs)[annotation] ELSE <<>>)
         \o pushAll(Tail(legs), annotation)

(* allCongestion[i] ?? "unknown" *)
congestionAt(allCongestion, i) ==
  IF i <= Len(allCongestion) THEN allCongestion[i] ELSE "unknown"

(* the allSpeeds.map callback from segment i on: the speeds pushed to
   liveSpeedsMph *)
RECURSIVE liveSpeedsFrom(_, _, _)
liveSpeedsFrom(allSpeeds, allCongestion, i) ==
  IF i > Len(allSpeeds) THEN <<>>
  ELSE (IF congestionAt(allCongestion, i) # "unknown"
          THEN <<mpsToMph(allSpeeds[i])>> ELSE <<>>)
         \o liveSpeedsFrom(allSpeeds, allCongestion, i + 1)

(* token is env.MAPBOX_ACCESS_TOKEN ("" when not configured); res is the
   answer of the map-matching API.  The result keeps status, hasLiveData and
   avgSpeedMph. *)
fetchMapbox(token, res) ==
  IF token = "" THEN [thrown |-> "Error"]
  ELSE IF ~res.ok THEN [thrown |-> "Error"]
  ELSE IF res.raw.code # "Ok" \/ "matchings" \notin DOMAIN res.raw
            \/ Len(res.raw.matchings) = 0
  THEN [status |-> "NO_MATCH", hasLiveData |-> FALSE, avgSpeedMph |-> null]
  ELSE LET matching == res.raw.matchings[1]
           allSpeeds == pushAll(matching.legs, "speed")
           allCongestion == pushAll(matching.legs, "congestion")
       IN IF Len(allSpeeds) = 0
          THEN [status |-> "NO_DATA", hasLiveData |-> FALSE, avgSpeedMph |-> null]
          ELSE LET hasLiveData == \E i \in 1..Len(allCongestion) :
                                    allCongestion[i] # "unknown"
                   liveSpeedsMph == liveSpeedsFrom(allSpeeds, allCongestion, 1)
                   avgSpeedMph == IF Len(liveSpeedsMph) > 0
                                  THEN Ratio(Sum(liveSpeedsMph), Len(liveSpeedsMph))
                                  ELSE null
               IN [status |-> IF hasLiveData THEN "HAS_LIVE_DATA" ELSE "NO_LIVE_DATA",
                   hasLiveData |-> hasLiveData,
                   avgSpeedMph |-> avgSpeedMph]

-----------------------------------------------------------------------------
(* Traffic worker: aggregateReadings.  rows is what stmt.all() returned:
   the rows of the window, newest first; since is the request's parameter
   ("null" when absent).  A speed in mph is a whole number of tenths. *)

AGGREGATION_WINDOW_MINUTES == 30

(* Math.round((sum / n) * 10) / 10 for sum in tenths of mph *)
roundedMean(sum, n) == (2 * sum + n) \div (2 * n)

(* aggregateReadings dividing by the number of polls of the window *)
aggregateReadings_OverAllPolls(rows, since) ==
  LET readings == IF "results" \in DOMAIN rows THEN rows.results ELSE <<>>
      windowLabel == IF since # "null" /\ since # ""
                     THEN [label |-> "since", since |-> since]
                     ELSE [label |-> "last", minutes |-> AGGREGATION_WINDOW_MINUTES]
  IN IF Len(readings) = 0
     THEN [window |-> [description |-> windowLabel, since |-> since, readings |-> 0],
           status |-> "INSUFFICIENT_DATA",
           averageSpeedMph |-> null,
           mostRecentLiveSpeedMph |-> null,
           mostRecentLiveTimestamp |-> null]
     ELSE LET liveReadings == SelectSeq(readings, LAMBDA r : r.has_live_data = 1)
              anyLiveData == Len(liveReadings) > 0
              withSpeed == SelectSeq(liveReadings, LAMBDA r : r.avg_speed_mph # null)
              liveSpeeds == [i \in 1..Len(withSpeed) |-> withSpeed[i].avg_speed_mph[1]]
              avgSpeed == IF Len(liveSpeeds) > 0
                          THEN <<roundedMean(Sum(liveSpeeds), Len(readings))>>
                          ELSE null
              found == Len(withSpeed) > 0
          IN [window |-> [description |-> windowLabel, since |-> since,
                          readings |-> Len(readings),
                          readingsWithLiveData |-> Len(liveReadings)],
              status |-> IF anyLiveData THEN "LIKELY_OPEN" ELSE "NO_LIVE_DATA",
              averageSpeedMph |-> avgSpeed,
              mostRecentLiveSpeedMph |-> IF found THEN withSpeed[1].avg_speed_mph ELSE null,
              mostRecentLiveTimestamp |-> IF found THEN <<withSpeed[1].timestamp>> ELSE null]

aggregateReadings(rows, since) ==
  LET readings == IF "results" \in DOMAIN rows THEN rows.results ELSE <<>>
      windowLabel == IF since # "null" /\ since # ""
                     THEN [label |-> "since", since |-> since]
                     ELSE [label |-> "last", minutes |-> AGGREGATION_WINDOW_MINUTES]
  IN IF Len(readings) = 0
     THEN [window |-> [description |-> windowLabel, since |-> since, readings |-> 0],
           status |-> "INSUFFICIENT_DATA",
           averageSpeedMph |-> null,
           mostRecentLiveSpeedMph |-> null,
           mostRecentLiveTimestamp |-> null]
     ELSE LET liveReadings == SelectSeq(readings, LAMBDA r : r.has_live_data = 1)
              anyLiveData == Len(liveReadings) > 0
              withSpeed == SelectSeq(liveReadings, LAMBDA r : r.avg_speed_mph # null)
              liveSpeeds == [i \in 1..Len(withSpeed) |-> withSpeed[i].avg_speed_mph[1]]
              avgSpeed == IF Len(liveSpeeds) > 0
                          THEN <<roundedMean(Sum(liveSpeeds), Len(liveSpeeds))>>
                          ELSE null
              found == Len(withSpeed) > 0
          IN [window |-> [description |-> windowLabel, since |-> since,
                          readings |-> Len(readings),
                          readingsWithLiveData |-> Len(liveReadings)],
              status |-> IF anyLiveData THEN "LIKELY_OPEN" ELSE "NO_LIVE_DATA",
              averageSpeedMph |-> avgSpeed,
              mostRecentLiveSpeedMph |-> IF found THEN withSpeed[1].avg_speed_mph ELSE null,
              mostRecentLiveTimestamp |-> IF found THEN <<withSpeed[1].timestamp>> ELSE null]

-----------------------------------------------------------------------------
(* Inputs *)

(* The sequences of at most n elements of S *)
RECURSIVE SeqsUpTo(_, _)
SeqsUpTo(S, n) ==
  IF n = 0 THEN {<<>>}
  ELSE LET shorter == SeqsUpTo(S, n - 1)
           longest == {q \in shorter : Len(q) = n - 1}
       IN shorter \cup {Append(p[1], p[2]) : p \in longest \X S}

RoutePoint == {[distanceToMidpointM |-> d] : d \in {149, 150}}

TomTomLeg == {[points |-> ps] : ps \in SeqsUpTo(RoutePoint, MaxPoints)}

TomTomRoute ==
  {[summary |-> [lengthInMeters |-> len], legs |-> legs] :
     len \in {1800, 4499, 4500, 5000}, legs \in SeqsUpTo(TomTomLeg, MaxLegs)}

(* Answers of the routing API: a failed request, a body without routes, a
   body with an empty routes array, a body with one route *)
TomTomResponse ==
  {[ok |-> FALSE]} \cup
  {[ok |-> TRUE, raw |-> raw] :
     raw \in {[formatVersion |-> "0.0.12"]} \cup
              {[formatVersion |-> "0.0.12", routes |-> <<>>]} \cup
              {[formatVersion |-> "0.0.12", routes |-> <<r>>] : r \in TomTomRoute}}

CurrentLevels ==
  {null} \cup {<<v>> : v \in {NORMAL_HIGH - 1, NORMAL_HIGH, NORMAL_HIGH + 1,
                              3849, 3850, 3851, 3929, 3930, 3931,
                              ROAD_FLOOD, 4000}}

(* r may follow the series s in ascending timestamp order *)
MayFollow(s, r) == Len(s) = 0 \/ s[Len(s)].dateTime < r.dateTime

(* The series of at most n readings drawn from R, ascending by timestamp *)
RECURSIVE AscendingSeries(_, _)
AscendingSeries(R, n) ==
  IF n = 0 THEN {<<>>}
  ELSE LET shorter == AscendingSeries(R, n - 1)
           longest == {s \in shorter : Len(s) = n - 1}
       IN shorter \cup
          {Append(p[1], p[2]) : p \in {q \in longest \X R : MayFollow(q[1], q[2])}}

(* Gauge series as the feed delivers them: ascending by timestamp, and no
   reading is stamped later than the clock. *)
ReadingSeries ==
  AscendingSeries({r \in EAReading : r.dateTime <= now}, MaxReadings)

(* The series of at most n readings drawn from R, in any order *)
RECURSIVE AnySeries(_, _)
AnySeries(R, n) ==
  IF n = 0 THEN {<<>>}
  ELSE LET shorter == AnySeries(R, n - 1)
           longest == {s \in shorter : Len(s) = n - 1}
       IN shorter \cup {Append(p[1], p[2]) : p \in longest \X R}

(* Series handed to findTimeWaterDroppedBelowFlood; the function itself
   does not look at the order of the timestamps. *)
DropSeries ==
  AnySeries({r \in EAReading : r.dateTime <= now}, MaxReadings)

(* Levels for the trend: 2.982 -> 3.002 and 3.002 -> 3.022 are both 20 mm *)
TrendValues == {2982, 3002, 3022}

QUARTER_HOUR_MS == 15 * 60 * 1000

(* A series of n readings a quarter of an hour apart, oldest first or (as
   an unsorted feed would give it) newest first.  The value is l at the
   last position, f at the first position of the trailing eight, h before
   it and m in between. *)
ShapedSeries(n, h, f, m, l, ascending) ==
  LET w == IF n > 8 THEN n - 7 ELSE 1
  IN [i \in 1..n |->
       [dateTime |-> QUARTER_HOUR_MS * (IF ascending THEN i ELSE n - i),
        value |-> IF i = n THEN l
                  ELSE IF i = w THEN f
                  ELSE IF i < w THEN h
                  ELSE m]]

TrendSeries ==
  {ShapedSeries(n, h, f, m, l, asc) :
     n \in 0..MaxTrendLen, h \in TrendValues, f \in TrendValues,
     m \in TrendValues, l \in TrendValues, asc \in BOOLEAN}

-----------------------------------------------------------------------------
(* The state machine: a clock, and the call to the core in progress *)

Init ==
  /\ now = Day(0)
  /\ fn = "none"
  /\ args = <<>>
  /\ ret = <<>>
  /\ prevStatus = "none"
  /\ page = [readings |-> <<>>,
             currentLevel |-> null,
             trend |-> "UNKNOWN",
             floodStatus |-> "UNKNOWN",
             trafficData |-> null,
             roadAssessment |-> null,
             loading |-> TRUE,
             setBy |-> [readings |-> 0, floodStatus |-> 0, roadAssessment |-> 0]]
  /\ runs = <<>>
  /\ chartFetches = 0

(* Date.now() advances; the core is synchronous, so the clock is read as
   standing still for the duration of one call. *)
Tick ==
  /\ fn = "none"
  /\ now < Day(MaxDay)
  /\ now' = now + DAY_MS
  /\ UNCHANGED <<fn, args, ret, prevStatus>>
  /\ UNCHANGED app

CallDetermineFloodStatus ==
  /\ fn = "none"
  /\ \E readings \in ReadingSeries, currentLevel \in CurrentLevels :
       /\ fn' = "determineFloodStatus"
       /\ args' = [currentLevel |-> currentLevel, readings |-> readings]
       /\ ret' = determineFloodStatus(currentLevel, readings)
  /\ UNCHANGED <<now, prevStatus>>
  /\ UNCHANGED app

(* The 5-minute timer runs loadData again: same series, a fresh latest
   reading, and the clock has moved on or not.  prevStatus keeps the status
   the call before returned. *)
PollAgain ==
  /\ fn = "determineFloodStatus"
  /\ \E elapsed \in {0, DAY_MS}, currentLevel \in CurrentLevels :
       /\ now + elapsed <= Day(MaxDay)
       /\ now' = now + elapsed
       /\ fn' = fn
       /\ args' = [currentLevel |-> currentLevel, readings |-> args.readings]
       /\ prevStatus' = ret
       /\ ret' = determineFloodStatus(currentLevel, args.readings)'
  /\ UNCHANGED app

CallDetermineTrend ==
  /\ fn = "none"
  /\ \E readings \in TrendSeries :
       /\ fn' = "determineTrend"
       /\ args' = [readings |-> readings]
       /\ ret' = determineTrend(readings)
  /\ UNCHANGED <<now, prevStatus>>
  /\ UNCHANGED app

CallFindTimeWaterDroppedBelowFlood ==
  /\ fn = "none"
  /\ \E readings \in DropSeries :
       /\ fn' = "findTimeWaterDroppedBelowFlood"
       /\ args' = [readings |-> readings]
       /\ ret' = findTimeWaterDroppedBelowFlood(readings)
  /\ UNCHANGED <<now, prevStatus>>
  /\ UNCHANGED app

CallAssessRoadStatus ==
  /\ fn = "none"
  /\ \E floodStatus \in FloodStatus,
        routeStatus \in RouteStatus \cup {"null"},
        trafficData \in TrafficResponse \cup {null},
        trafficSinceFlood \in TrafficResponse \cup {null} :
       /\ fn' = "assessRoadStatus"
       /\ args' = [floodStatus |-> floodStatus, routeStatus |-> routeStatus,
                   trafficData |-> trafficData, trafficSinceFlood |-> trafficSinceFlood]
       /\ ret' = assessRoadStatus(floodStatus, routeStatus, trafficData, trafficSinceFlood)
  /\ UNCHANGED <<now, prevStatus>>
  /\ UNCHANGED app

(* The caller has consumed the result *)
Return ==
  /\ fn # "none"
  /\ fn' = "none"
  /\ args' = <<>>
  /\ ret' = <<>>
  /\ prevStatus' = "none"
  /\ UNCHANGED now
  /\ UNCHANGED app

Next ==
  \/ Tick
  \/ Return
  \/ CallDetermineFloodStatus
  \/ PollAgain
  \/ CallDetermineTrend
  \/ CallFindTimeWaterDroppedBelowFlood
  \/ CallAssessRoadStatus

Spec == Init /\ [][Next]_vars

-----------------------------------------------------------------------------
(* The page (App.tsx).  page holds the useState values that are rendered;
   page.setBy names, for a value, the loadData run that set it (0: no run,
   the initial value or the chart effect).  runs[k] is the k-th loadData
   run started: where it stands (awaiting the river data, awaiting the road
   data, done) and its local constants.  Each await is a step of its own;
   the set... calls between two awaits are rendered together. *)

AppLevels == {<<NORMAL_HIGH + 1>>, <<FLOOD_WARNING>>}

AppSeries == {<<>>, <<[dateTime |-> Day(0), value |-> ROAD_FLOOD]>>}

AppTraffic ==
  {null, [window |-> [readings |-> 1, readingsWithLiveData |-> 1]]}

Mounted == Len(runs) > 0

(* loadData up to its first await: setLoading(true), setError(null) and
   the three river fetches are under way *)
startLoadData ==
  /\ Len(runs) < MaxRuns
  /\ runs' = Append(runs, [pc |-> "river", status |-> "UNKNOWN", readingsData |-> <<>>])
  /\ page' = [page EXCEPT !.loading = TRUE]

(* the chartDays effect: fetchRiverReadings(chartDays) is under way *)
startChartRefetch == chartFetches' = chartFetches + 1

(* The component mounts: both effects run *)
Mount ==
  /\ ~Mounted
  /\ startLoadData
  /\ startChartRefetch
  /\ UNCHANGED core

(* setInterval(loadData, 5 * 60 * 1000) fires *)
TimerFires ==
  /\ Mounted
  /\ startLoadData
  /\ UNCHANGED <<chartFetches, core>>

(* The Refresh button, disabled while loading *)
ClickRefresh ==
  /\ Mounted
  /\ ~page.loading
  /\ startLoadData
  /\ UNCHANGED <<chartFetches, core>>

(* A chart-range button: chartDays changes, loadData is a new callback, so
   the timer effect is set up again and calls it, and the chart effect
   refetches the readings *)
ChangeChartRange ==
  /\ Mounted
  /\ startLoadData
  /\ startChartRefetch
  /\ UNCHANGED core

(* Promise.all of some run k resolves (a failed fetch gives [] or null):
   level, trend and status are computed and set *)
RiverDataArrive ==
  /\ \E k \in 1..Len(runs), readingsData \in AppSeries, level \in AppLevels \cup {null} :
       LET trendDir == determineTrend(readingsData)
           status == determineFloodStatus(level, readingsData)
       IN /\ runs[k].pc = "river"
          /\ page' = [page EXCEPT !.readings = readingsData,
                                   !.currentLevel = level,
                                   !.trend = trendDir,
                                   !.floodStatus = status,
                                   !.setBy.readings = k,
                                   !.setBy.floodStatus = k]
          /\ runs' = [runs EXCEPT ![k] = [pc |-> "road", status |-> status,
                                          readingsData |-> readingsData]]
  /\ UNCHANGED <<chartFetches, core>>

(* The road fetches of some run k are over (a failed one leaves null): the
   assessment is computed from the run's own status and set, loading ends
   and the run's locals are gone *)
RoadDataArrive ==
  /\ \E k \in 1..Len(runs) :
       LET status == runs[k].status
           dropTime == IF status = "RECEDING" \/ status = "CLEAR"
                       THEN findTimeWaterDroppedBelowFlood(runs[k].readingsData)
                       ELSE null
       IN /\ runs[k].pc = "road"
          /\ \E rStatus \in {"ROUTING_THROUGH", "ROUTING_AROUND", "null"},
                tData \in AppTraffic,
                tSinceFlood \in IF dropTime # null THEN AppTraffic ELSE {null} :
               page' = [page EXCEPT !.trafficData = tData,
                                    !.roadAssessment =
                                       assessRoadStatus(status, rStatus, tData, tSinceFlood),
                                    !.setBy.roadAssessment = k,
                                    !.loading = FALSE]
          /\ runs' = [runs EXCEPT ![k] = [pc |-> "done", status |-> "UNKNOWN",
                                          readingsData |-> <<>>]]
  /\ UNCHANGED <<chartFetches, core>>

(* A chart refetch resolves: setReadings(data) *)
ChartReadingsArrive ==
  /\ chartFetches > 0
  /\ chartFetches' = chartFetches - 1
  /\ \E data \in AppSeries :
       page' = [page EXCEPT !.readings = data, !.setBy.readings = 0]
  /\ UNCHANGED <<runs, core>>

NextApp ==
  \/ Mount
  \/ TimerFires
  \/ ClickRefresh
  \/ ChangeChartRange
  \/ RiverDataArrive
  \/ RoadDataArrive
  \/ ChartReadingsArrive

SpecApp == Init /\ [][NextApp]_vars

-----------------------------------------------------------------------------
(* The route-check worker: one request at a time *)

CallCheckRoute ==
  /\ fn = "none"
  /\ fn' = "checkRoute"
  /\ \/ /\ args' = [apiKey |-> ""]
        /\ ret' = checkRoute("", [ok |-> FALSE])
     \/ \E res \in TomTomResponse :
          /\ args' = [apiKey |-> "key", res |-> res]
          /\ ret' = checkRoute("key", res)
  /\ UNCHANGED <<now, prevStatus>>
  /\ UNCHANGED app

NextRoute ==
  \/ CallCheckRoute
  \/ Return

SpecRoute == Init /\ [][NextRoute]_vars

-----------------------------------------------------------------------------
(* The traffic worker: one poll or one request at a time *)

(* annotation arrays of one leg, one entry per segment; a leg may also
   come without either *)
SpeedAnnotation == {<<9>>, <<13>>, <<9, 13>>}

CongestionAnnotation == {<<"unknown">>, <<"low">>, <<"low", "unknown">>}

MapboxLeg ==
  {[distance |-> 180]} \cup
  {[distance |-> 180, speed |-> sp] : sp \in SpeedAnnotation} \cup
  {[distance |-> 180, congestion |-> cg] : cg \in CongestionAnnotation} \cup
  {[distance |-> 180, speed |-> sp, congestion |-> cg] :
     sp \in SpeedAnnotation, cg \in CongestionAnnotation}

MapboxMatching == {[legs |-> legs] : legs \in SeqsUpTo(MapboxLeg, MaxMatchLegs)}

MapboxMatchResponse ==
  {[ok |-> FALSE]} \cup
  {[ok |-> TRUE, raw |-> raw] :
     raw \in {[code |-> c] : c \in {"Ok", "NoMatch"}} \cup
              {[code |-> c, matchings |-> <<>>] : c \in {"Ok", "NoMatch"}} \cup
              {[code |-> "NoMatch", matchings |-> <<m>>] :
                 m \in {x \in MapboxMatching : Len(x.legs) <= 1}} \cup
              {[code |-> "Ok", matchings |-> <<m>>] : m \in MapboxMatching}}

CallFetchMapbox ==
  /\ fn = "none"
  /\ fn' = "fetchMapbox"
  /\ \/ /\ args' = [token |-> ""]
        /\ ret' = fetchMapbox("", [ok |-> FALSE])
     \/ \E res \in MapboxMatchResponse :
          /\ args' = [token |-> "token", res |-> res]
          /\ ret' = fetchMapbox("token", res)
  /\ UNCHANGED <<now, prevStatus>>
  /\ UNCHANGED app

(* The rows pollAndStore writes: has_live_data is 1 for HAS_LIVE_DATA only,
   and only such a row can hold a speed *)
StoredPoll ==
  {[status |-> st, has_live_data |-> 0, avg_speed_mph |-> null] :
     st \in {"ERROR", "NO_MATCH", "NO_DATA", "NO_LIVE_DATA"}} \cup
  {[status |-> "HAS_LIVE_DATA", has_live_data |-> 1, avg_speed_mph |-> sp] :
     sp \in {null, <<200>>, <<204>>, <<300>>}}

(* ORDER BY timestamp DESC: the polls of the window stamped by the minute,
   newest first *)
Stamped(polls) ==
  [i \in 1..Len(polls) |->
     [timestamp |-> Len(polls) - i,
      status |-> polls[i].status,
      has_live_data |-> polls[i].has_live_data,
      avg_speed_mph |-> polls[i].avg_speed_mph]]

D1Result ==
  {[success |-> TRUE]} \cup
  {[success |-> TRUE, results |-> Stamped(polls)] : polls \in SeqsUpTo(StoredPoll, MaxRows)}

CallAggregateReadings ==
  /\ fn = "none"
  /\ \E rows \in D1Result, since \in {"null", "2024-01-05T12:00:00Z"} :
       /\ fn' = "aggregateReadings"
       /\ args' = [rows |-> rows, since |-> since]
       /\ ret' = aggregateReadings(rows, since)
  /\ UNCHANGED <<now, prevStatus>>
  /\ UNCHANGED app

NextTraffic ==
  \/ CallFetchMapbox
  \/ CallAggregateReadings
  \/ Return

SpecTraffic == Init /\ [][NextTraffic]_vars

-----------------------------------------------------------------------------
(* The traffic worker's table: timestamps as text.  A text is the sequence
   of its characters.  Dates are formatted for January 1970, the month the
   model's clock stays in. *)

MINUTE_MS == 60 * 1000

Digits == <<"0", "1", "2", "3", "4", "5", "6", "7", "8", "9">>

Pad2(n) == <<Digits[(n \div 10) + 1], Digits[(n % 10) + 1]>>

Pad3(n) == <<Digits[(n \div 100) + 1]>> \o Pad2(n % 100)

(* YYYY-MM-DD of the instant ms *)
CivilDate(ms) ==
  <<"1", "9", "7", "0", "-", "0", "1", "-">> \o Pad2(1 + ms \div DAY_MS)

(* HH:MM:SS of the instant ms *)
ClockTime(ms) ==
  Pad2((ms % DAY_MS) \div (60 * MINUTE_MS)) \o <<":">>
    \o Pad2((ms % (60 * MINUTE_MS)) \div MINUTE_MS) \o <<":">>
    \o Pad2((ms % MINUTE_MS) \div 1000)

(* new Date(ms).toISOString(): YYYY-MM-DDTHH:MM:SS.sssZ *)
toISOString(ms) ==
  CivilDate(ms) \o <<"T">> \o ClockTime(ms) \o <<".">> \o Pad3(ms % 1000) \o <<"Z">>

(* SQLite datetime('now', '<minutes> minutes') with 'now' at the instant
   ms: YYYY-MM-DD HH:MM:SS *)
datetime(ms, minutes) ==
  LET t == ms + minutes * MINUTE_MS
  IN CivilDate(t) \o <<" ">> \o ClockTime(t)

(* the code of a character, as the BINARY collation compares it *)
Ord(c) ==
  CASE c = " " -> 32
    [] c = "-" -> 45
    [] c = "." -> 46
    [] c = ":" -> 58
    [] c = "T" -> 84
    [] c = "Z" -> 90
    [] OTHER -> 47 + CHOOSE d \in 1..10 : Digits[d] = c

(* a > b on TEXT values, from character i on *)
RECURSIVE textGreaterFrom(_, _, _)
textGreaterFrom(a, b, i) ==
  IF i > Len(a) THEN FALSE
  ELSE IF i > Len(b) THEN TRUE
  ELSE IF Ord(a[i]) # Ord(b[i]) THEN Ord(a[i]) > Ord(b[i])
  ELSE textGreaterFrom(a, b, i + 1)

TextGreater(a, b) == textGreaterFrom(a, b, 1)

(* ORDER BY timestamp DESC *)
RECURSIVE orderByTimestampDesc(_)
orderByTimestampDesc(rowSet) ==
  IF rowSet = {} THEN <<>>
  ELSE LET top == CHOOSE r \in rowSet :
                    \A q \in rowSet \ {r} : TextGreater(r.timestamp, q.timestamp)
       IN <<top>> \o orderByTimestampDesc(rowSet \ {top})

(* SELECT ... FROM readings WHERE timestamp > datetime('now', '-30 minutes')
   ORDER BY timestamp DESC, with 'now' read from the clock *)
selectLastWindow(db) ==
  [success |-> TRUE,
   results |-> orderByTimestampDesc(
                 {r \in db : TextGreater(r.timestamp,
                                         datetime(now, 0 - AGGREGATION_WINDOW_MINUTES))})]

(* The instants the clock is looked at: every 20 minutes from 23:00 on the
   first day, across midnight *)
ClockSamples == {23 * 60 * MINUTE_MS + k * 20 * MINUTE_MS : k \in 0..MaxTicks}

(* the row pollAndStore inserts for a poll taken at the instant t *)
storedRow(t, result) ==
  [timestamp |-> toISOString(t),
   status |-> result.status,
   has_live_data |-> IF result.hasLiveData THEN 1 ELSE 0,
   avg_speed_mph |-> result.avgSpeedMph]

(* Tables the cron handler has filled by now: one row per instant polled,
   every poll with the same result *)
StoredTables ==
  {{storedRow(t, result) : t \in polled} :
     polled \in SUBSET {t \in ClockSamples : t <= now},
     result \in {[status |-> "HAS_LIVE_DATA", hasLiveData |-> TRUE, avgSpeedMph |-> <<200>>],
                 [status |-> "NO_LIVE_DATA", hasLiveData |-> FALSE, avgSpeedMph |-> null]}}

AdvanceClock ==
  /\ fn = "none"
  /\ \E t \in ClockSamples : t > now /\ now' = t
  /\ UNCHANGED <<fn, args, ret, prevStatus>>
  /\ UNCHANGED app

(* GET / without a since parameter: the query runs on the table and its
   rows are aggregated *)
CallAggregateLastWindow ==
  /\ fn = "none"
  /\ now >= AGGREGATION_WINDOW_MINUTES * MINUTE_MS
  /\ \E db \in StoredTables :
       /\ fn' = "aggregateReadings"
       /\ args' = [db |-> db, rows |-> selectLastWindow(db), since |-> "null"]
       /\ ret' = aggregateReadings(selectLastWindow(db), "null")
  /\ UNCHANGED <<now, prevStatus>>
  /\ UNCHANGED app

NextWindow ==
  \/ AdvanceClock
  \/ CallAggregateLastWindow
  \/ Return

SpecWindow == Init /\ [][NextWindow]_vars

-----------------------------------------------------------------------------
(* Properties of assessRoadStatus *)

Assessing == fn = "assessRoadStatus"

(* trafficSinceFlood reports at least one poll with live data *)
LiveSeen(t) ==
  /\ t # null
  /\ "readingsWithLiveData" \in DOMAIN t.window
  /\ t.window.readingsWithLiveData >= 1

(* trafficSinceFlood is there and reports no poll with live data *)
SensorSilent(t) ==
  /\ t # null
  /\ \/ "readingsWithLiveData" \notin DOMAIN t.window
     \/ t.window.readingsWithLiveData = 0

Is(verdict, isOpen, confidence) ==
  verdict.isOpen = isOpen /\ verdict.confidence = confidence

(* C1: a FLOODED river closes the road with HIGH confidence, whatever the
   route status and whatever traffic was seen. *)
C1_FloodedIsClosed ==
  (Assessing /\ args.floodStatus = "FLOODED") => Is(ret, "false", "HIGH")

C1_Witness ==
  /\ Assessing
  /\ args.floodStatus = "FLOODED"
  /\ args.routeStatus = "ROUTING_THROUGH"
  /\ LiveSeen(args.trafficSinceFlood)
  /\ LiveSeen(args.trafficData)
  /\ Is(ret, "false", "HIGH")

(* C2: an UNKNOWN flood status gives an uncertain verdict (isOpen null) of
   LOW confidence, whatever the route status and the traffic. *)
C2_UnknownIsUncertain ==
  (Assessing /\ args.floodStatus = "UNKNOWN") => Is(ret, "null", "LOW")

(* C3: RECEDING with live readings since the flood is open with HIGH
   confidence for every route status. *)
C3_RecedingLiveIsOpen ==
  (Assessing /\ args.floodStatus = "RECEDING" /\ LiveSeen(args.trafficSinceFlood))
    => Is(ret, "true", "HIGH")

C3_Witness ==
  /\ Assessing
  /\ args.floodStatus = "RECEDING"
  /\ args.routeStatus = "ROUTING_AROUND"
  /\ LiveSeen(args.trafficSinceFlood)
  /\ Is(ret, "true", "HIGH")

(* C4: RECEDING without live readings since the flood follows the route
   status: through is open/MEDIUM, around or no route is closed/MEDIUM,
   ERROR or null is unknown/LOW. *)
C4_RecedingQuietFollowsRoute ==
  (Assessing /\ args.floodStatus = "RECEDING" /\ ~LiveSeen(args.trafficSinceFlood))
    => /\ args.routeStatus = "ROUTING_THROUGH" => Is(ret, "true", "MEDIUM")
       /\ args.routeStatus \in {"ROUTING_AROUND", "NO_ROUTE"} => Is(ret, "false", "MEDIUM")
       /\ args.routeStatus \in {"ERROR", "null"} => Is(ret, "null", "LOW")

C4_Witness ==
  /\ Assessing
  /\ args.floodStatus = "RECEDING"
  /\ args.routeStatus = "NO_ROUTE"
  /\ SensorSilent(args.trafficSinceFlood)
  /\ Is(ret, "false", "MEDIUM")

(* C5: NEAR_FLOOD is closed/MEDIUM when the route goes around or there is no
   route, open/MEDIUM for every other route status, whatever the traffic. *)
C5_NearFloodTable ==
  (Assessing /\ args.floodStatus = "NEAR_FLOOD")
    => IF args.routeStatus \in {"ROUTING_AROUND", "NO_ROUTE"}
       THEN Is(ret, "false", "MEDIUM")
       ELSE Is(ret, "true", "MEDIUM")

C5_Witness ==
  /\ Assessing
  /\ args.floodStatus = "NEAR_FLOOD"
  /\ args.routeStatus = "NO_ROUTE"
  /\ LiveSeen(args.trafficSinceFlood)
  /\ Is(ret, "false", "MEDIUM")

(* C6: CLEAR is open/HIGH when routing through, closed/MEDIUM when routing
   around, open/LOW for NO_ROUTE, ERROR and null, whatever the traffic. *)
C6_ClearTable ==
  (Assessing /\ args.floodStatus = "CLEAR")
    => /\ args.routeStatus = "ROUTING_THROUGH" => Is(ret, "true", "HIGH")
       /\ args.routeStatus = "ROUTING_AROUND" => Is(ret, "false", "MEDIUM")
       /\ args.routeStatus \in {"NO_ROUTE", "ERROR", "null"} => Is(ret, "true", "LOW")

C6_Witness ==
  /\ Assessing
  /\ args.floodStatus = "CLEAR"
  /\ args.routeStatus = "NO_ROUTE"
  /\ SensorSilent(args.trafficSinceFlood)
  /\ Is(ret, "true", "LOW")

(* C7: unless the river is FLOODED, live readings since the flood make the
   verdict open, whatever the route status. *)
C7_LiveTrafficDominatesRoute ==
  (Assessing /\ args.floodStatus # "FLOODED" /\ LiveSeen(args.trafficSinceFlood))
    => ret.isOpen = "true"

(* C8: a silent sensor never closes the road: a closed verdict given with a
   trafficSinceFlood of zero live readings is also the verdict for the same
   flood and route status when trafficSinceFlood is unavailable. *)
C8_SilenceIsNotClosure ==
  (Assessing /\ SensorSilent(args.trafficSinceFlood) /\ ret.isOpen = "false")
    => assessRoadStatus(args.floodStatus, args.routeStatus,
                        args.trafficData, null).isOpen = "false"

C8_Witness ==
  /\ Assessing
  /\ args.floodStatus = "RECEDING"
  /\ args.routeStatus = "ROUTING_AROUND"
  /\ args.trafficSinceFlood # null
  /\ "readingsWithLiveData" \in DOMAIN args.trafficSinceFlood.window
  /\ args.trafficSinceFlood.window.readingsWithLiveData = 0
  /\ ret.isOpen = "false"

(* C9: every call returns a verdict: isOpen is true, false or null,
   confidence is HIGH, MEDIUM or LOW, the reason is not empty, and nothing
   is thrown. *)
C9_AssessIsTotal ==
  Assessing
    => /\ DOMAIN ret = {"isOpen", "confidence", "reason"}
       /\ ret.isOpen \in {"true", "false", "null"}
       /\ ret.confidence \in {"HIGH", "MEDIUM", "LOW"}
       /\ ret.reason # ""

C9_Witness ==
  /\ Assessing
  /\ args.floodStatus = "RECEDING"
  /\ args.routeStatus = "null"
  /\ args.trafficSinceFlood = null
  /\ args.trafficData # null
  /\ "readingsWithLiveData" \notin DOMAIN args.trafficData.window
  /\ Is(ret, "null", "LOW")
  /\ ret.reason # ""

-----------------------------------------------------------------------------
(* Properties of determineFloodStatus *)

Classifying == fn = "determineFloodStatus"

(* C10: the ladder is decided by the level alone: no level is UNKNOWN, a
   level of 3.93 m or more is FLOODED, a level from 3.85 m up to 3.93 m is
   NEAR_FLOOD; 4.00 m with no readings is FLOODED. *)
C10_LevelLadder ==
  Classifying
    => /\ args.currentLevel = null => ret = "UNKNOWN"
       /\ (args.currentLevel # null /\ args.currentLevel[1] >= 3930)
            => ret = "FLOODED"
       /\ (args.currentLevel # null /\ args.currentLevel[1] >= 3850
                                    /\ args.currentLevel[1] < 3930)
            => ret = "NEAR_FLOOD"
       /\ (args.currentLevel = <<4000>> /\ args.readings = <<>>)
            => ret = "FLOODED"

C10_Witness ==
  /\ Classifying
  /\ args.currentLevel = <<3930>>
  /\ Len(args.readings) > 0
  /\ \A i \in 1..Len(args.readings) : args.readings[i].value < ROAD_FLOOD
  /\ ret = "FLOODED"

(* Some reading at or above the road flood level is stamped later than
   seven days before the clock *)
FloodWithinSevenDays(readings) ==
  \E i \in 1..Len(readings) :
    readings[i].value >= 3980 /\ now - readings[i].dateTime < 604800000

(* C11: below the near-flood band a known level is RECEDING exactly when a
   reading reached ROAD_FLOOD within the last 7 days and the level is
   strictly above NORMAL_HIGH; otherwise it is CLEAR. *)
C11_RecedingIffRecentFloodAboveNormal ==
  (Classifying /\ args.currentLevel # null /\ args.currentLevel[1] < 3850)
    => /\ ret \in {"RECEDING", "CLEAR"}
       /\ ret = "RECEDING" <=>
            (FloodWithinSevenDays(args.readings) /\ args.currentLevel[1] > 3000)

C11_Witness ==
  /\ Classifying
  /\ args.currentLevel = <<3000>>
  /\ FloodWithinSevenDays(args.readings)
  /\ ret = "CLEAR"

(* C12: with every reading of the trailing 7 days below ROAD_FLOOD and the
   level at or below NORMAL_HIGH the status is CLEAR, also right after a
   call that returned RECEDING and with older flood readings still in the
   series. *)
C12_RecedingDecays ==
  (Classifying /\ args.currentLevel # null /\ args.currentLevel[1] <= 3000
     /\ ~FloodWithinSevenDays(args.readings))
    => ret = "CLEAR"

C12_Witness ==
  /\ Classifying
  /\ prevStatus = "RECEDING"
  /\ args.currentLevel # null
  /\ args.currentLevel[1] <= 3000
  /\ \E i \in 1..Len(args.readings) : args.readings[i].value >= 3980
  /\ ~FloodWithinSevenDays(args.readings)
  /\ ret = "CLEAR"

-----------------------------------------------------------------------------
(* Properties of determineTrend and findTimeWaterDroppedBelowFlood *)

Trending == fn = "determineTrend"

Dropping == fn = "findTimeWaterDroppedBelowFlood"

(* C13: fewer than 4 readings give UNKNOWN; otherwise, with diff the last
   value minus the first value of the trailing 8 readings, |diff| < 0.02 is
   STEADY, diff >= 0.02 is RISING and diff <= -0.02 is FALLING, whatever the
   values in between. *)
C13_TrendByDeadband ==
  Trending
    => IF Len(args.readings) < 4 THEN ret = "UNKNOWN"
       ELSE LET n == Len(args.readings)
                diff == args.readings[n].value
                          - args.readings[IF n > 8 THEN n - 7 ELSE 1].value
            IN /\ (diff > -20 /\ diff < 20) => ret = "STEADY"
               /\ diff >= 20 => ret = "RISING"
               /\ diff <= -20 => ret = "FALLING"

(* C14: without a reading at ROAD_FLOOD or above the result is null; with
   i the last such reading it is the timestamp of reading i+1, or of
   reading i when i is the last one, and no reading after the returned one
   is at ROAD_FLOOD or above. *)
C14_DropTimeFollowsLastFlood ==
  Dropping
    => LET readings == args.readings
           flooded == {i \in 1..Len(readings) : readings[i].value >= 3980}
       IN IF flooded = {} THEN ret = null
          ELSE LET i == CHOOSE k \in flooded : \A j \in flooded : j <= k
                   at == IF i < Len(readings) THEN i + 1 ELSE i
               IN /\ ret = <<readings[at].dateTime>>
                  /\ \A j \in (at + 1)..Len(readings) : readings[j].value < 3980

C14_Witness ==
  /\ Dropping
  /\ Len(args.readings) = 2
  /\ args.readings[1].value >= 3980
  /\ args.readings[2].value < 3980
  /\ args.readings[1].dateTime < args.readings[2].dateTime
  /\ ret = <<args.readings[2].dateTime>>

(* C15: two consecutive calls of determineFloodStatus with the same level
   and the same readings return the same status, however much time
   passed between them. *)
C15_SameInputSameStatus ==
  [][(Classifying /\ Classifying' /\ args' = args) => ret' = ret]_vars

InTimestampOrder(readings) ==
  \A i \in 1..(Len(readings) - 1) : readings[i].dateTime <= readings[i + 1].dateTime

(* C16: determineTrend and findTimeWaterDroppedBelowFlood given readings
   out of timestamp order signal an error: they return neither a trend nor
   a drop time. *)
C16_UnsortedIsRejected ==
  /\ (Trending /\ ~InTimestampOrder(args.readings))
       => ret \notin {"RISING", "FALLING", "STEADY", "UNKNOWN"}
  /\ (Dropping /\ ~InTimestampOrder(args.readings))
       => ret \notin ({null} \cup {<<args.readings[i].dateTime>> : i \in 1..Len(args.readings)})

-----------------------------------------------------------------------------
(* Properties of checkRoute *)

Routed == fn = "checkRoute" /\ args.apiKey # "" /\ args.res.ok

HasRoute == "routes" \in DOMAIN args.res.raw /\ Len(args.res.raw.routes) > 0

(* the distances to the midpoint of all points of the first route *)
FirstRouteDistances ==
  LET legs == args.res.raw.routes[1].legs
  IN {legs[i].points[j].distanceToMidpointM :
        <<i, j>> \in {q \in (1..Len(legs)) \X (1..MaxPoints + 1) :
                        q[2] <= Len(legs[q[1]].points)}}

(* C17: no route gives NO_ROUTE; otherwise the status is ROUTING_THROUGH
   exactly when the route is shorter than 4500 m (2.5 times 1800 m) and
   some point is closer than 150 m to the midpoint, and ROUTING_AROUND in
   every other case. *)
C17_RouteClassification ==
  Routed
    => IF ~HasRoute THEN ret.status = "NO_ROUTE"
       ELSE LET through == /\ args.res.raw.routes[1].summary.lengthInMeters < 4500
                           /\ \E d \in FirstRouteDistances : d < 150
            IN ret.status = IF through THEN "ROUTING_THROUGH" ELSE "ROUTING_AROUND"

C17_Witness ==
  /\ Routed
  /\ HasRoute
  /\ args.res.raw.routes[1].summary.lengthInMeters = 5000
  /\ 149 \in FirstRouteDistances
  /\ ret.status = "ROUTING_AROUND"

(* C18: a first route without any point is an error: checkRoute does not
   return a classification for it. *)
C18_EmptyRouteIsAnError ==
  (Routed /\ HasRoute /\ FirstRouteDistances = {})
    => "thrown" \in DOMAIN ret

-----------------------------------------------------------------------------
(* Properties of fetchMapbox *)

Polled == fn = "fetchMapbox" /\ args.token # "" /\ args.res.ok

Matched ==
  /\ args.res.raw.code = "Ok"
  /\ "matchings" \in DOMAIN args.res.raw
  /\ Len(args.res.raw.matchings) > 0

MatchedLegs == args.res.raw.matchings[1].legs

CongestionTags == pushAll(MatchedLegs, "congestion")

(* the speeds, in mph, of the segments of one leg from segment i on whose
   own congestion tag is not unknown *)
RECURSIVE LiveSpeedsOfLeg(_, _)
LiveSpeedsOfLeg(leg, i) ==
  IF "speed" \notin DOMAIN leg \/ i > Len(leg.speed) THEN <<>>
  ELSE (IF /\ "congestion" \in DOMAIN leg
           /\ i <= Len(leg.congestion)
           /\ leg.congestion[i] # "unknown"
          THEN <<mpsToMph(leg.speed[i])>> ELSE <<>>)
         \o LiveSpeedsOfLeg(leg, i + 1)

RECURSIVE LiveSpeedsOfLegs(_)
LiveSpeedsOfLegs(legs) ==
  IF Len(legs) = 0 THEN <<>>
  ELSE LiveSpeedsOfLeg(Head(legs), 1) \o LiveSpeedsOfLegs(Tail(legs))

(* C19: one poll is NO_MATCH without a matching, NO_DATA when the matching
   has no speed, NO_LIVE_DATA when every congestion tag is unknown and
   HAS_LIVE_DATA when some tag is not; the average speed is the mean of the
   speeds of exactly the segments whose congestion tag is not unknown, null
   without one. *)
C19_PollClassification ==
  Polled
    => IF ~Matched THEN ret.status = "NO_MATCH"
       ELSE IF \A k \in 1..Len(MatchedLegs) :
                  "speed" \notin DOMAIN MatchedLegs[k] \/ Len(MatchedLegs[k].speed) = 0
       THEN ret.status = "NO_DATA"
       ELSE /\ ret.status =
                 IF \A i \in 1..Len(CongestionTags) : CongestionTags[i] = "unknown"
                 THEN "NO_LIVE_DATA" ELSE "HAS_LIVE_DATA"
            /\ LET live == LiveSpeedsOfLegs(MatchedLegs)
               IN ret.avgSpeedMph =
                    IF Len(live) = 0 THEN null ELSE Ratio(Sum(live), Len(live))

-----------------------------------------------------------------------------
(* Properties of aggregateReadings *)

Aggregated == fn = "aggregateReadings"

WindowPolls == IF "results" \in DOMAIN args.rows THEN args.rows.results ELSE <<>>

LivePolls == {i \in 1..Len(WindowPolls) : WindowPolls[i].has_live_data = 1}

LivePollsWithSpeed == {i \in LivePolls : WindowPolls[i].avg_speed_mph # null}

RECURSIVE SpeedSum(_)
SpeedSum(I) ==
  IF I = {} THEN 0
  ELSE LET i == CHOOSE j \in I : TRUE
       IN WindowPolls[i].avg_speed_mph[1] + SpeedSum(I \ {i})

WindowStatus ==
  IF Len(WindowPolls) = 0 THEN "INSUFFICIENT_DATA"
  ELSE IF LivePolls # {} THEN "LIKELY_OPEN"
  ELSE "NO_LIVE_DATA"

(* C20 as stated: the status follows the window, and averageSpeedMph is
   exactly the unweighted mean of the speeds of the polls with live data,
   null when no poll has live data. *)
C20_ExactMeanOfLivePolls ==
  Aggregated
    => /\ ret.status = WindowStatus
       /\ LivePolls = {} => ret.averageSpeedMph = null
       /\ LivePollsWithSpeed # {}
            => /\ ret.averageSpeedMph # null
               /\ ret.averageSpeedMph[1] * Cardinality(LivePollsWithSpeed)
                    = SpeedSum(LivePollsWithSpeed)

(* C20 amended: the status follows the window, and averageSpeedMph is the
   unweighted mean of the speeds of the live polls that stored one, rounded
   to the nearest 0.1 mph, null when there is no such poll. *)
C20_RoundedMeanOfLivePolls ==
  Aggregated
    => /\ ret.status = WindowStatus
       /\ IF LivePollsWithSpeed = {} THEN ret.averageSpeedMph = null
          ELSE LET n == Cardinality(LivePollsWithSpeed)
                   e == ret.averageSpeedMph[1] * n - SpeedSum(LivePollsWithSpeed)
               IN /\ ret.averageSpeedMph # null
                  /\ 2 * e <= n
                  /\ 2 * e >= 0 - n

C20_Witness ==
  /\ Aggregated
  /\ Len(WindowPolls) = 3
  /\ \E i \in 1..3 : WindowPolls[i].status = "NO_LIVE_DATA"
  /\ \E i, j \in LivePollsWithSpeed :
       /\ WindowPolls[i].avg_speed_mph = <<200>>
       /\ WindowPolls[j].avg_speed_mph = <<300>>
  /\ ret.status = "LIKELY_OPEN"
  /\ ret.averageSpeedMph = <<250>>

(* the newest poll of the window stored as HAS_LIVE_DATA (rows are newest
   first) *)
NewestLivePoll ==
  WindowPolls[CHOOSE i \in LivePolls : \A j \in LivePolls : i <= j]

(* C21: mostRecentLiveSpeedMph and mostRecentLiveTimestamp are those of the
   newest HAS_LIVE_DATA poll of the window, and neither is null when the
   window holds such a poll. *)
C21_MostRecentLiveIsNewestLivePoll ==
  (Aggregated /\ \E i \in 1..Len(WindowPolls) : WindowPolls[i].status = "HAS_LIVE_DATA")
    => /\ ret.mostRecentLiveTimestamp = <<NewestLivePoll.timestamp>>
       /\ ret.mostRecentLiveSpeedMph = NewestLivePoll.avg_speed_mph
       /\ ret.mostRecentLiveSpeedMph # null

-----------------------------------------------------------------------------
(* Frame of assessRoadStatus *)

(* C27: the verdict of assessRoadStatus is the same for every value of its
   third argument, the current traffic window: null or any response, one
   reporting live vehicles included. *)
C27_VerdictIgnoresTrafficData ==
  Assessing
    => \A trafficData \in TrafficResponse \cup {null} :
         assessRoadStatus(args.floodStatus, args.routeStatus, trafficData,
                          args.trafficSinceFlood) = ret

C27_Witness ==
  /\ Assessing
  /\ LiveSeen(args.trafficData)
  /\ args.floodStatus = "CLEAR"
  /\ args.routeStatus = "ROUTING_AROUND"
  /\ Is(ret, "false", "MEDIUM")

-----------------------------------------------------------------------------
(* Flood memory of determineFloodStatus *)

(* Some reading of the trailing seven days has a value that is FLOODED when
   it is the current level *)
FloodedLevelWithinSevenDays(readings) ==
  \E i \in 1..Len(readings) :
    /\ determineFloodStatus(<<readings[i].value>>, <<>>) = "FLOODED"
    /\ now - readings[i].dateTime < 604800000

(* C25: after a reading of the trailing 7 days that classifies as FLOODED,
   a level below the near-flood band and above NORMAL_HIGH is RECEDING,
   never CLEAR. *)
C25_FloodedLevelLeavesReceding ==
  (Classifying /\ args.currentLevel # null
     /\ args.currentLevel[1] < 3850 /\ args.currentLevel[1] > 3000
     /\ FloodedLevelWithinSevenDays(args.readings))
    => ret = "RECEDING"

-----------------------------------------------------------------------------
(* The traffic worker's body against the site's TrafficResponse *)

(* C26: every body aggregateReadings produces is a TrafficResponse: its
   status is LIVE_DATA, NO_LIVE_DATA or ERROR and its window carries
   readingsWithLiveData; with a live poll in the window the site's test
   status === "LIVE_DATA" is true. *)
C26_BodyIsATrafficResponse ==
  Aggregated
    => /\ ret.status \in TrafficResponseStatus
       /\ "readingsWithLiveData" \in DOMAIN ret.window
       /\ LivePolls # {} => ret.status = "LIVE_DATA"

-----------------------------------------------------------------------------
(* The trailing window of the traffic worker *)

Selected(t) ==
  \E i \in 1..Len(args.rows.results) : args.rows.results[i].timestamp = toISOString(t)

(* C22: without since, a stored poll is in the window exactly when it was
   taken less than 30 minutes before the request. *)
C22_WindowIsTrailingThirtyMinutes ==
  (Aggregated /\ "db" \in DOMAIN args)
    => /\ ret.window.readings = Len(args.rows.results)
       /\ \A t \in ClockSamples :
            (\E r \in args.db : r.timestamp = toISOString(t))
              => (Selected(t) <=> now - t < 30 * 60 * 1000)

-----------------------------------------------------------------------------
(* Overlapping loadData runs *)

AllRunsFinished ==
  /\ Mounted
  /\ \A k \in 1..Len(runs) : runs[k].pc = "done"
  /\ chartFetches = 0

(* C23: once every run has finished, the flood status (with the trend set
   along with it) and the road assessment on the page are those of the run
   that started last. *)
C23_LastStartedRunWins ==
  AllRunsFinished
    => /\ page.setBy.floodStatus = Len(runs)
       /\ page.setBy.roadAssessment = Len(runs)

(* C24: the page never shows a flood status of a newer run together with
   the road assessment an older run computed. *)
C24_StatusAndAssessmentOfOneRun ==
  page.roadAssessment # null
    => page.setBy.floodStatus <= page.setBy.roadAssessment

====
